---- MODULE Spec2Model ----
(***************************************************************************)
(* A model of src/tetris.rs: the Tetris game (TetrisGame), its 7-bag       *)
(* randomizer over a 64-bit LCG, and the device entry points that reach    *)
(* the one shared game through a mutex.                                    *)
(***************************************************************************)
EXTENDS Integers, Sequences, FiniteSets, TLC

BOARD_WIDTH == 10
BOARD_HEIGHT == 20
RENDER_BUFFER_SIZE == 4096

TETRIS_IOCTL_LEFT == 32768
TETRIS_IOCTL_RIGHT == 32769
TETRIS_IOCTL_DOWN == 32770
TETRIS_IOCTL_ROTATE == 32771
TETRIS_IOCTL_DROP == 32772
TETRIS_IOCTL_RESET == 32773

\* F(v), with v evaluated once
Bind(v, F(_)) == CHOOSE r \in {F(x) : x \in {v}} : TRUE

\* enum TetrominoType, in declaration order (the initial order of the bag).
TetrominoType == <<"I", "O", "T", "S", "Z", "J", "L">>

Kinds == {TetrominoType[k] : k \in 1..7}

(***************************************************************************)
(* ShapeMatrix: 4x4 occupancy matrices, indexed [row][col] from 0.         *)
(***************************************************************************)
Matrix(rows) == [i \in 0..3 |-> [j \in 0..3 |-> rows[i + 1][j + 1] = 1]]

\* mutant: the matrix is transposed
rotate_once_Transposed(matrix) == [a \in 0..3 |-> [b \in 0..3 |-> matrix[b][a]]]

\* rotated[j][3 - i] = matrix[i][j], for all i, j
rotate_once(matrix) == [a \in 0..3 |-> [b \in 0..3 |-> matrix[3 - b][a]]]

from_base(base) ==
    LET r1 == rotate_once(base)
        r2 == rotate_once(r1)
        r3 == rotate_once(r2)
    IN  [r \in 0..3 |-> CASE r = 0 -> base [] r = 1 -> r1 [] r = 2 -> r2 [] OTHER -> r3]

SHAPES ==
    << from_base(Matrix(<< <<0,0,0,0>>, <<1,1,1,1>>, <<0,0,0,0>>, <<0,0,0,0>> >>)),
       from_base(Matrix(<< <<0,0,0,0>>, <<0,1,1,0>>, <<0,1,1,0>>, <<0,0,0,0>> >>)),
       from_base(Matrix(<< <<0,0,0,0>>, <<0,1,0,0>>, <<1,1,1,0>>, <<0,0,0,0>> >>)),
       from_base(Matrix(<< <<0,0,0,0>>, <<0,1,1,0>>, <<1,1,0,0>>, <<0,0,0,0>> >>)),
       from_base(Matrix(<< <<0,0,0,0>>, <<1,1,0,0>>, <<0,1,1,0>>, <<0,0,0,0>> >>)),
       from_base(Matrix(<< <<0,0,0,0>>, <<1,0,0,0>>, <<1,1,1,0>>, <<0,0,0,0>> >>)),
       from_base(Matrix(<< <<0,0,0,0>>, <<0,0,1,0>>, <<1,1,1,0>>, <<0,0,0,0>> >>)) >>

\* Tetromino::new: x = BOARD_WIDTH / 2 - 2, y = 0, rotation = 0
Tetromino_new(piece_type) ==
    [piece_type |-> piece_type, x |-> (BOARD_WIDTH \div 2) - 2, y |-> 0, rotation |-> 0]

ShapeIndex(piece_type) == CHOOSE k \in 1..7 : TetrominoType[k] = piece_type

get_shape(piece) == SHAPES[ShapeIndex(piece.piece_type)][piece.rotation % 4]

SetMin(S) == CHOOSE m \in S : \A n \in S : m <= n
SetMax(S) == CHOOSE m \in S : \A n \in S : m >= n

\* (min_x, min_y, max_x, max_y), starting from (4, 4, 0, 0)
get_bounds(shape) ==
    LET rws == {i \in 0..3 : \E j \in 0..3 : shape[i][j]}
        cls == {j \in 0..3 : \E i \in 0..3 : shape[i][j]}
    IN  [min_x |-> SetMin(cls \cup {4}), min_y |-> SetMin(rws \cup {4}),
         max_x |-> SetMax(cls \cup {0}), max_y |-> SetMax(rws \cup {0})]

\* The (i, j) the loops of check_collision, lock_piece and render visit with
\* shape[i][j] set.
ShapeCells(shape) ==
    LET b == get_bounds(shape)
    IN  {c \in (b.min_y..b.max_y) \X (b.min_x..b.max_x) : shape[c[1]][c[2]]}

(***************************************************************************)
(* PRNG: a u64 as 8 little-endian bytes, so that wrapping arithmetic is    *)
(* exact.                                                                  *)
(***************************************************************************)
U64Of(n) == [k \in 1..8 |-> IF k <= 4 THEN
                              (n \div (CASE k = 1 -> 1 [] k = 2 -> 256
                                       [] k = 3 -> 65536 [] OTHER -> 16777216)) % 256
                            ELSE 0]

LCG_MUL == <<45, 127, 149, 76, 45, 244, 81, 88>>
LCG_ADD == <<79, 129, 103, 247, 126, 123, 5, 20>>

RECURSIVE Carry(_, _, _)
\* propagate carries through the column sums, dropping the carry out of byte 8
Carry(cols, k, c) ==
    IF k > 8 THEN <<>>
    ELSE <<(cols[k] + c) % 256>> \o Carry(cols, k + 1, (cols[k] + c) \div 256)

wrapping_add(a, b) ==
    Bind([k \in 1..8 |-> a[k] + b[k]], LAMBDA cols : Carry(cols, 1, 0))

RECURSIVE ColSum(_, _, _, _)
ColSum(a, b, k, i) ==
    IF i > k THEN 0 ELSE a[i] * b[k + 1 - i] + ColSum(a, b, k, i + 1)

wrapping_mul(a, b) ==
    Bind([k \in 1..8 |-> ColSum(a, b, k, 1)], LAMBDA cols : Carry(cols, 1, 0))

RECURSIVE ModFrom(_, _, _, _)
\* the u64 modulo m, from the most significant byte down
ModFrom(a, m, k, r) ==
    IF k = 0 THEN r ELSE ModFrom(a, m, k - 1, (r * 256 + a[k]) % m)

U64Mod(a, m) == ModFrom(a, m, 8, 0)

PRNG_new(seed) == wrapping_add(seed, U64Of(1))

PRNG_next(state) ==
    Bind(wrapping_mul(state, LCG_MUL), LAMBDA m : wrapping_add(m, LCG_ADD))

\* next_range: the state is advanced, the value is state % max
PRNG_next_range(state, max) ==
    Bind(PRNG_next(state), LAMBDA s : [state |-> s, value |-> U64Mod(s, max)])

(***************************************************************************)
(* TetrisGame.  A game g is a record of the struct's fields; current_piece *)
(* is an Option: {} for None, {p} for Some(p).  Methods that return a      *)
(* value yield [game |-> ..., ret |-> ...].                                *)
(***************************************************************************)
EmptyRow == [x \in 0..(BOARD_WIDTH - 1) |-> FALSE]

EmptyBoard == [y \in 0..(BOARD_HEIGHT - 1) |-> EmptyRow]

Unwrap(opt) == CHOOSE p \in opt : TRUE

RECURSIVE ShuffleLoop(_, _, _)
\* while i > 1 { i -= 1; j = next_range(i + 1); swap(bag[i], bag[j]) }
ShuffleLoop(bag, prng, i) ==
    IF i > 1 THEN
        LET i1 == i - 1
            Swap(r) ==
                LET j == r.value
                    tmp == bag[i1]
                IN  [bag |-> [bag EXCEPT ![i1] = bag[j], ![j] = tmp], prng |-> r.state]
        IN  Bind(Bind(PRNG_next_range(prng, i1 + 1), Swap),
                 LAMBDA s : ShuffleLoop(s.bag, s.prng, i1))
    ELSE [bag |-> bag, prng |-> prng]

\* mutant: every slot of the bag is drawn independently
shuffle_bag_Independent(g) ==
    LET s1 == PRNG_next(g.prng)
        s2 == PRNG_next(s1)
        s3 == PRNG_next(s2)
        s4 == PRNG_next(s3)
        s5 == PRNG_next(s4)
        s6 == PRNG_next(s5)
        draws == <<s1, s2, s3, s4, s5, s6>>
    IN  [g EXCEPT !.prng = s6,
                  !.bag = [k \in 0..6 |->
                              IF k = 0 THEN g.bag[0]
                              ELSE TetrominoType[U64Mod(draws[k], 7) + 1]]]

shuffle_bag(g) ==
    Bind(ShuffleLoop(g.bag, g.prng, 7),
         LAMBDA r : [g EXCEPT !.bag = r.bag, !.prng = r.prng])

next_piece_from_bag(g) ==
    Bind(IF g.bag_idx >= 7 THEN [shuffle_bag(g) EXCEPT !.bag_idx = 0] ELSE g,
         LAMBDA g1 : [game |-> [g1 EXCEPT !.bag_idx = g1.bag_idx + 1],
                      ret |-> g1.bag[g1.bag_idx]])

\* score: u32, as two 16-bit limbs, least significant first
U32Of(n) == <<n % 65536, n \div 65536>>

\* the number a u32 holds, for the values below 2^31
U32Value(a) == a[2] * 65536 + a[1]

U32Less(a, b) == a[2] < b[2] \/ (a[2] = b[2] /\ a[1] < b[1])

\* self.score += n on a u32: the sum modulo 2^32
u32_add(a, n) ==
    LET lo == a[1] + (n % 65536)
        hi == a[2] + (n \div 65536) + (lo \div 65536)
    IN  <<lo % 65536, hi % 65536>>

\* num / 10 and num % 10 on a u32, by long division over the limbs
U32DivMod10(a) ==
    LET t == (a[2] % 10) * 65536 + a[1]
    IN  [quot |-> <<t \div 10, a[2] \div 10>>, rem |-> t % 10]

\* the struct literal of TetrisGame::new, before its first draw
TetrisGame_literal(seed) ==
    [board |-> EmptyBoard,
     current_piece |-> {},
     score |-> U32Of(0),
     game_over |-> FALSE,
     next_piece_type |-> "I",
     bag |-> [k \in 0..6 |-> TetrominoType[k + 1]],
     bag_idx |-> 7,
     prng |-> PRNG_new(seed)]

\* game.next_piece_type = game.next_piece_from_bag(); game
TetrisGame_new(seed) ==
    Bind(Bind(TetrisGame_literal(seed), next_piece_from_bag),
         LAMBDA r : [r.game EXCEPT !.next_piece_type = r.ret])

is_out_of_bounds(board_x, board_y) ==
    \/ board_x < 0
    \/ board_x >= BOARD_WIDTH
    \/ board_y < 0
    \/ board_y >= BOARD_HEIGHT

check_collision(g, piece) ==
    \E c \in ShapeCells(get_shape(piece)) :
        LET board_x == piece.x + c[2]
            board_y == piece.y + c[1]
        IN  \/ is_out_of_bounds(board_x, board_y)
            \/ g.board[board_y][board_x]

\* mutant: the next kind is drawn before the collision check
spawn_piece_DrawFirst(g) ==
    IF g.game_over THEN g
    ELSE LET new_piece == Tetromino_new(g.next_piece_type)
             r == next_piece_from_bag(g)
         IN  IF check_collision(g, new_piece)
             THEN [r.game EXCEPT !.game_over = TRUE, !.next_piece_type = r.ret]
             ELSE [r.game EXCEPT !.current_piece = {new_piece}, !.next_piece_type = r.ret]

\* mutant: the piece spawned is of the kind just drawn, not of the kind shown
spawn_piece_UseDrawn(g) ==
    IF g.game_over THEN g
    ELSE LET r == next_piece_from_bag(g)
             new_piece == Tetromino_new(r.ret)
         IN  IF check_collision(g, new_piece)
             THEN [g EXCEPT !.game_over = TRUE]
             ELSE [r.game EXCEPT !.current_piece = {new_piece}, !.next_piece_type = r.ret]

spawn_piece(g) ==
    IF g.game_over THEN g
    ELSE LET new_piece == Tetromino_new(g.next_piece_type)
         IN  IF check_collision(g, new_piece)
             THEN [g EXCEPT !.game_over = TRUE]
             ELSE Bind(next_piece_from_bag([g EXCEPT !.current_piece = {new_piece}]),
                       LAMBDA r : [r.game EXCEPT !.next_piece_type = r.ret])

\* mutant: the score is kept across a reset
reset_KeepScore(g) ==
    Bind([g EXCEPT !.board = EmptyBoard,
                   !.current_piece = {},
                   !.game_over = FALSE],
         spawn_piece)

\* mutant: the game is built anew, with a new PRNG
reset_Reseed(g) ==
    Bind([TetrisGame_new(U64Of(0)) EXCEPT !.next_piece_type = g.next_piece_type],
         spawn_piece)

reset(g) ==
    Bind([g EXCEPT !.board = EmptyBoard,
                   !.current_piece = {},
                   !.score = U32Of(0),
                   !.game_over = FALSE],
         spawn_piece)

RECURSIVE ClearScan(_, _, _, _)
\* for y in (0..BOARD_HEIGHT).rev(): count the full rows, copy the others down
ClearScan(board, y, write_idx, lines_cleared) ==
    IF y < 0 THEN [board |-> board, write_idx |-> write_idx, lines_cleared |-> lines_cleared]
    ELSE IF \A x \in 0..(BOARD_WIDTH - 1) : board[y][x]
         THEN ClearScan(board, y - 1, write_idx, lines_cleared + 1)
         ELSE LET w == write_idx - 1
              IN  Bind(IF w # y THEN [board EXCEPT ![w] = board[y]] ELSE board,
                       LAMBDA b : ClearScan(b, y - 1, w, lines_cleared))

\* mutant: the rows vacated at the top are not zero-filled
ClearFill_None(board, write_idx) == board

RECURSIVE ClearFill(_, _)
\* while write_idx > 0 { write_idx -= 1; board[write_idx] = [false; W] }
ClearFill(board, write_idx) ==
    IF write_idx > 0
    THEN Bind([board EXCEPT ![write_idx - 1] = EmptyRow],
              LAMBDA b : ClearFill(b, write_idx - 1))
    ELSE board

\* mutant: the catch-all arm starts at three rows
LineScore_CatchAllFromThree(lines_cleared) ==
    CASE lines_cleared = 1 -> 100
      [] lines_cleared = 2 -> 300
      [] OTHER -> 800

\* mutant: 100 points for every row cleared
LineScore_Linear(lines_cleared) == 100 * lines_cleared

LineScore(lines_cleared) ==
    CASE lines_cleared = 1 -> 100
      [] lines_cleared = 2 -> 300
      [] lines_cleared = 3 -> 500
      [] OTHER -> 800

clear_lines(g) ==
    Bind(ClearScan(g.board, BOARD_HEIGHT - 1, BOARD_HEIGHT, 0),
         LAMBDA s : [g EXCEPT !.board = ClearFill(s.board, s.write_idx),
                              !.score = IF s.lines_cleared > 0
                                        THEN u32_add(g.score, LineScore(s.lines_cleared))
                                        ELSE g.score])

\* the cells lock_piece writes: those of the shape that are not out of bounds
StampCells(piece) ==
    {<<piece.y + c[1], piece.x + c[2]>> : c \in
        {c \in ShapeCells(get_shape(piece)) :
            ~is_out_of_bounds(piece.x + c[2], piece.y + c[1])}}

\* mutant: the lock spawns without clearing the lines
lock_piece_NoClear(g) ==
    IF g.current_piece = {} THEN g
    ELSE LET Stamp(cells) ==
                 [g EXCEPT !.current_piece = {},
                           !.board = [y \in 0..(BOARD_HEIGHT - 1) |->
                                        [x \in 0..(BOARD_WIDTH - 1) |->
                                            g.board[y][x] \/ <<y, x>> \in cells]]]
         IN  Bind(Bind(StampCells(Unwrap(g.current_piece)), Stamp), spawn_piece)

\* mutant: the lock leaves the spawn to the next call
lock_piece_NoSpawn(g) ==
    IF g.current_piece = {} THEN g
    ELSE LET Stamp(cells) ==
                 [g EXCEPT !.current_piece = {},
                           !.board = [y \in 0..(BOARD_HEIGHT - 1) |->
                                        [x \in 0..(BOARD_WIDTH - 1) |->
                                            g.board[y][x] \/ <<y, x>> \in cells]]]
         IN  Bind(Bind(StampCells(Unwrap(g.current_piece)), Stamp), clear_lines)

lock_piece(g) ==
    IF g.current_piece = {} THEN g
    ELSE LET Stamp(cells) ==
                 [g EXCEPT !.current_piece = {},
                           !.board = [y \in 0..(BOARD_HEIGHT - 1) |->
                                        [x \in 0..(BOARD_WIDTH - 1) |->
                                            g.board[y][x] \/ <<y, x>> \in cells]]]
         IN  Bind(Bind(Bind(StampCells(Unwrap(g.current_piece)), Stamp), clear_lines),
                  spawn_piece)

\* mutant: the move to the left is committed without the collision check
move_left_Unchecked(g) ==
    IF g.current_piece = {} THEN [game |-> g, ret |-> FALSE]
    ELSE LET p == Unwrap(g.current_piece)
             piece == [p EXCEPT !.x = p.x - 1]
         IN  [game |-> [g EXCEPT !.current_piece = {piece}], ret |-> TRUE]

move_left(g) ==
    IF g.current_piece = {} THEN [game |-> g, ret |-> FALSE]
    ELSE LET p == Unwrap(g.current_piece)
             piece == [p EXCEPT !.x = p.x - 1]
         IN  IF ~check_collision(g, piece)
             THEN [game |-> [g EXCEPT !.current_piece = {piece}], ret |-> TRUE]
             ELSE [game |-> g, ret |-> FALSE]

move_right(g) ==
    IF g.current_piece = {} THEN [game |-> g, ret |-> FALSE]
    ELSE LET p == Unwrap(g.current_piece)
             piece == [p EXCEPT !.x = p.x + 1]
         IN  IF ~check_collision(g, piece)
             THEN [game |-> [g EXCEPT !.current_piece = {piece}], ret |-> TRUE]
             ELSE [game |-> g, ret |-> FALSE]

\* mutant: a move down without a piece starts a new game
move_down_RestartWhenNone(g) ==
    IF g.current_piece = {} THEN [game |-> reset(g), ret |-> FALSE]
    ELSE LET p == Unwrap(g.current_piece)
             piece == [p EXCEPT !.y = p.y + 1]
         IN  IF ~check_collision(g, piece)
             THEN [game |-> [g EXCEPT !.current_piece = {piece}], ret |-> TRUE]
             ELSE [game |-> lock_piece(g), ret |-> FALSE]

\* mutant: a blocked move down leaves the piece where it is, as the other
\* moves do
move_down_NoLock(g) ==
    IF g.current_piece = {} THEN [game |-> g, ret |-> FALSE]
    ELSE LET p == Unwrap(g.current_piece)
             piece == [p EXCEPT !.y = p.y + 1]
         IN  IF ~check_collision(g, piece)
             THEN [game |-> [g EXCEPT !.current_piece = {piece}], ret |-> TRUE]
             ELSE [game |-> g, ret |-> FALSE]

move_down(g) ==
    IF g.current_piece = {} THEN [game |-> g, ret |-> FALSE]
    ELSE LET p == Unwrap(g.current_piece)
             piece == [p EXCEPT !.y = p.y + 1]
         IN  IF ~check_collision(g, piece)
             THEN [game |-> [g EXCEPT !.current_piece = {piece}], ret |-> TRUE]
             ELSE [game |-> lock_piece(g), ret |-> FALSE]

\* mutant: the rotation is committed without the collision check
rotate_Unchecked(g) ==
    IF g.current_piece = {} THEN [game |-> g, ret |-> FALSE]
    ELSE LET p == Unwrap(g.current_piece)
             piece == [p EXCEPT !.rotation = (p.rotation + 1) % 4]
         IN  [game |-> [g EXCEPT !.current_piece = {piece}], ret |-> TRUE]

rotate(g) ==
    IF g.current_piece = {} THEN [game |-> g, ret |-> FALSE]
    ELSE LET p == Unwrap(g.current_piece)
             piece == [p EXCEPT !.rotation = (p.rotation + 1) % 4]
         IN  IF ~check_collision(g, piece)
             THEN [game |-> [g EXCEPT !.current_piece = {piece}], ret |-> TRUE]
             ELSE [game |-> g, ret |-> FALSE]

\* mutant: `if` for `while`, one move_down only
HardDropLoop_Once(g, calls) ==
    Bind(move_down(g), LAMBDA r : [game |-> r.game, calls |-> calls + 1])

RECURSIVE HardDropLoop(_, _)
\* while self.move_down() {}; calls counts the calls of move_down
HardDropLoop(g, calls) ==
    Bind(move_down(g),
         LAMBDA r : IF r.ret THEN HardDropLoop(r.game, calls + 1)
                    ELSE [game |-> r.game, calls |-> calls + 1])

hard_drop(g) == HardDropLoop(g, 0).game

\* create_tetris_inner: TetrisGame::new() and the first spawn_piece()
create_tetris_inner(seed) == Bind(TetrisGame_new(seed), spawn_piece)

(***************************************************************************)
(* The renderer.  A buffer is a sequence of bytes, buffer[i] of the code   *)
(* being element i + 1; st is the buffer with a flag that an index at or   *)
(* beyond its length was written, where the code would panic.  A cursor    *)
(* cur is st with the pos of render_to_buffer.                             *)
(***************************************************************************)
\* buffer[i] = byte
Store(st, i, byte) ==
    IF i < Len(st.buffer) THEN [st EXCEPT !.buffer[i + 1] = byte]
    ELSE [st EXCEPT !.panic = TRUE]

\* mutant: the bytes are written without the check against buffer.len()
write_bytes_Unchecked(st, pos, bytes) ==
    LET RECURSIVE Loop(_, _)
        Loop(s, k) == IF k > Len(bytes) THEN s
                      ELSE Bind(Store(s, pos + k - 1, bytes[k]), LAMBDA s1 : Loop(s1, k + 1))
    IN  [st |-> Loop(st, 1), written |-> Len(bytes)]

RECURSIVE WriteBytesLoop(_, _, _, _, _)
\* for &byte in bytes { if pos + written < buffer.len() { .. } else { break } }
WriteBytesLoop(st, pos, bytes, k, written) ==
    IF k > Len(bytes) THEN [st |-> st, written |-> written]
    ELSE IF pos + written < Len(st.buffer)
         THEN Bind(Store(st, pos + written, bytes[k]),
                   LAMBDA s : WriteBytesLoop(s, pos, bytes, k + 1, written + 1))
         ELSE [st |-> st, written |-> written]

write_bytes(st, pos, bytes) == WriteBytesLoop(st, pos, bytes, 1, 0)

RECURSIVE DigitsLoop(_, _)
\* while num > 0 && digit_count < 10: the digits, least significant first
DigitsLoop(num, digits) ==
    IF num # U32Of(0) /\ Len(digits) < 10
    THEN Bind(U32DivMod10(num),
              LAMBDA d : DigitsLoop(d.quot, Append(digits, d.rem + 48)))
    ELSE digits

RECURSIVE WriteDigitsLoop(_, _, _, _, _)
\* for i in (0..digit_count).rev() { if pos + written < buffer.len() { .. } }
WriteDigitsLoop(st, pos, digits, i, written) ==
    IF i < 0 THEN [st |-> st, written |-> written]
    ELSE IF pos + written < Len(st.buffer)
         THEN Bind(Store(st, pos + written, digits[i + 1]),
                   LAMBDA s : WriteDigitsLoop(s, pos, digits, i - 1, written + 1))
         ELSE WriteDigitsLoop(st, pos, digits, i - 1, written)

write_number(st, pos, num) ==
    Bind(IF num = U32Of(0) THEN <<48>> ELSE DigitsLoop(num, <<>>),
         LAMBDA digits : WriteDigitsLoop(st, pos, digits, Len(digits) - 1, 0))

\* pos += Self::write_bytes(buffer, pos, bytes)
Put(cur, bytes) ==
    Bind(write_bytes(cur.st, cur.pos, bytes),
         LAMBDA r : [st |-> r.st, pos |-> cur.pos + r.written])

\* pos += Self::write_number(buffer, pos, num)
PutNumber(cur, num) ==
    Bind(write_number(cur.st, cur.pos, num),
         LAMBDA r : [st |-> r.st, pos |-> cur.pos + r.written])

top_border == <<226, 149, 148>>
horizontal == <<226, 149, 144>>
top_right == <<226, 149, 151, 10>>
left_border == <<226, 149, 145>>
right_border == <<226, 149, 145, 10>>
filled == <<226, 150, 136, 226, 150, 136>>
empty == <<32, 32>>
bottom_left == <<226, 149, 154>>
bottom_right == <<226, 149, 157, 10>>
ScoreLabel == <<83, 99, 111, 114, 101, 58, 32>>
GameOverLine == <<71, 65, 77, 69, 32, 79, 86, 69, 82, 33, 10>>

RECURSIVE PutHorizontal(_, _)
\* for _ in 0..BOARD_WIDTH { horizontal; horizontal }
PutHorizontal(cur, k) ==
    IF k >= BOARD_WIDTH THEN cur
    ELSE Bind(Bind(Bind(cur, LAMBDA c : Put(c, horizontal)), LAMBDA c : Put(c, horizontal)),
              LAMBDA c : PutHorizontal(c, k + 1))

RECURSIVE PutCells(_, _, _)
\* for &cell in row { filled or empty }
PutCells(cur, row, x) ==
    IF x >= BOARD_WIDTH THEN cur
    ELSE Bind(Put(cur, IF row[x] THEN filled ELSE empty),
              LAMBDA c : PutCells(c, row, x + 1))

RECURSIVE PutRows(_, _, _)
\* for row in &display_board { left_border; the cells; right_border }
PutRows(cur, display_board, y) ==
    IF y >= BOARD_HEIGHT THEN cur
    ELSE Bind(Bind(Bind(Bind(cur, LAMBDA c : Put(c, left_border)),
                        LAMBDA c : PutCells(c, display_board[y], 0)),
                   LAMBDA c : Put(c, right_border)),
              LAMBDA c : PutRows(c, display_board, y + 1))

\* display_board: the board with the cells of the active piece set
DisplayBoard(g) ==
    IF g.current_piece = {} THEN g.board
    ELSE Bind(StampCells(Unwrap(g.current_piece)),
              LAMBDA cells : [y \in 0..(BOARD_HEIGHT - 1) |->
                                 [x \in 0..(BOARD_WIDTH - 1) |->
                                     g.board[y][x] \/ <<y, x>> \in cells]])

\* render_to_buffer on a buffer of n bytes: the buffer after it, whether it
\* panicked, and the pos it returns
render_to_buffer(g, n) ==
    LET start == [st |-> [buffer |-> [i \in 1..n |-> 32], panic |-> FALSE], pos |-> 0]
        Top(c0) ==
            Bind(Bind(Bind(c0, LAMBDA c : Put(c, top_border)),
                      LAMBDA c : PutHorizontal(c, 0)),
                 LAMBDA c : Put(c, top_right))
        Rows(c0) ==
            Bind(DisplayBoard(g), LAMBDA display_board : PutRows(c0, display_board, 0))
        Bottom(c0) ==
            Bind(Bind(Bind(c0, LAMBDA c : Put(c, bottom_left)),
                      LAMBDA c : PutHorizontal(c, 0)),
                 LAMBDA c : Put(c, bottom_right))
        Score(c0) ==
            Bind(Bind(Bind(c0, LAMBDA c : Put(c, ScoreLabel)),
                      LAMBDA c : PutNumber(c, g.score)),
                 LAMBDA c : Put(c, <<10>>))
        Over(c0) == IF g.game_over THEN Put(c0, GameOverLine) ELSE c0
    IN  Bind(Bind(Bind(Bind(Bind(Bind(start, Top), Rows), Bottom), Score), Over),
             LAMBDA c : [buffer |-> c.st.buffer, panic |-> c.st.panic, ret |-> c.pos])

(***************************************************************************)
(* The device entry points.  write_iter takes one key byte, ioctl a        *)
(* command code; both dispatch to the game's methods.                      *)
(***************************************************************************)
\* the match of write_iter on buffer[0]
KeyOp(byte) ==
    CASE byte \in {"a", "A"} -> "move_left"
      [] byte \in {"d", "D"} -> "move_right"
      [] byte \in {"s", "S"} -> "move_down"
      [] byte \in {"w", "W"} -> "rotate"
      [] byte = " " -> "hard_drop"
      [] byte \in {"r", "R"} -> "reset"
      [] OTHER -> "none"

\* mutant: an unknown command code is ignored, as an unknown key is
IoctlOp_IgnoreUnknown(cmd) ==
    CASE cmd = TETRIS_IOCTL_LEFT -> "move_left"
      [] cmd = TETRIS_IOCTL_RIGHT -> "move_right"
      [] cmd = TETRIS_IOCTL_DOWN -> "move_down"
      [] cmd = TETRIS_IOCTL_ROTATE -> "rotate"
      [] cmd = TETRIS_IOCTL_DROP -> "hard_drop"
      [] cmd = TETRIS_IOCTL_RESET -> "reset"
      [] OTHER -> "none"

\* the match of ioctl on cmd; "EINVAL" is the arm that returns Err(EINVAL)
IoctlOp(cmd) ==
    CASE cmd = TETRIS_IOCTL_LEFT -> "move_left"
      [] cmd = TETRIS_IOCTL_RIGHT -> "move_right"
      [] cmd = TETRIS_IOCTL_DOWN -> "move_down"
      [] cmd = TETRIS_IOCTL_ROTATE -> "rotate"
      [] cmd = TETRIS_IOCTL_DROP -> "hard_drop"
      [] cmd = TETRIS_IOCTL_RESET -> "reset"
      [] OTHER -> "EINVAL"

\* one arm of either match, on the locked game: the game after it, what the
\* method returned, and the number of move_down calls hard_drop made
ApplyOp(op, g) ==
    LET Moved(r) == [game |-> r.game, ret |-> r.ret, calls |-> 0]
    IN  CASE op = "move_left" -> Bind(move_left(g), Moved)
          [] op = "move_right" -> Bind(move_right(g), Moved)
          [] op = "move_down" ->
                Bind(move_down(g), LAMBDA r : [game |-> r.game, ret |-> r.ret, calls |-> 1])
          [] op = "rotate" -> Bind(rotate(g), Moved)
          [] op = "hard_drop" ->
                Bind(HardDropLoop(g, 0),
                     LAMBDA r : [game |-> r.game, ret |-> FALSE, calls |-> r.calls])
          [] op = "reset" -> [game |-> reset(g), ret |-> FALSE, calls |-> 0]
          [] OTHER -> [game |-> g, ret |-> FALSE, calls |-> 0]

(***************************************************************************)
(* Starting states: the device as created, for several seeds, and games    *)
(* already under way, each the result of writing the listed key bytes to   *)
(* a device created with the listed seed.                                  *)
(***************************************************************************)
KeysFresh ==
    <<>>

KeysOneLine ==
    <<"a", "a", "a", "a", " ", "a", " ", "d", "d", "d", " ", "a", " ", "w", "d", " ", "w", "d", "d", "d">>

KeysTwoLines ==
    <<"d", "d", "d", " ", " ", "a", "a", " ", "d", "d", " ", "w", "a", "a", "a", "a", " ", "w", "d", "d", "d">>

KeysThreeLines ==
    <<"a", "a", "a", " ", "a", " ", "d", "d", " ", "w", "w", "w", "d", "d", "d", " ", "w", "a", "a", "a", "a", " ", "d", "d", " ", "w", "w", "a", "a", " ", "w", "w", "d", " ", "w", "d", "d", "d">>

KeysFourLines ==
    <<"a", "a", "a", "a", " ", "a", " ", "w", "d", " ", "a", " ", "w", "w", "a", " ", "w", "d", "d", "d", " ", "a", "a", "a", " ", "w", "w", "w", "d", "d", " ", "w", "w", "a", "a", "a", "a", " ", "w", "d", "d", " ", "w", "d", "d", "d">>

KeysStacked ==
    <<" ", " ", " ", " ", " ", " ", " ", " ", " ">>

\* KeysOneLine, then the piece is moved over the gap and stepped down to rest
KeysSoftLock ==
    KeysOneLine \o <<"d", "s", "s", "s", "s", "s", "s", "s", "s", "s", "s", "s", "s", "s", "s", "s", "s">>

U64Max == [k \in 1..8 |-> 255]

Scenarios ==
    << [seed |-> U64Of(0), keys |-> KeysFresh],
       [seed |-> U64Max, keys |-> KeysFresh],
       [seed |-> U64Of(1), keys |-> KeysOneLine],
       [seed |-> U64Of(7), keys |-> KeysTwoLines],
       [seed |-> U64Of(2), keys |-> KeysThreeLines],
       [seed |-> U64Of(1), keys |-> KeysFourLines],
       [seed |-> U64Of(0), keys |-> KeysStacked],
       [seed |-> U64Of(1), keys |-> KeysSoftLock] >>

\* the number of device calls a behaviour makes after its starting state
MaxOps == 3

WriteBytes == {"a", "A", "d", "D", "s", "S", "w", "W", " ", "r", "R", "x"}

IoctlCmds == {TETRIS_IOCTL_LEFT, TETRIS_IOCTL_RIGHT, TETRIS_IOCTL_DOWN,
              TETRIS_IOCTL_ROTATE, TETRIS_IOCTL_DROP, TETRIS_IOCTL_RESET,
              0, TETRIS_IOCTL_RESET + 1}

VARIABLES
    game,   \* TetrisDeviceInner.game: the one TetrisGame behind the mutex
    prev,   \* history: the game before the last call
    last,   \* history: the last call, its operation and what it returned
    scen,   \* the starting scenario of this behaviour
    pos,    \* the number of the scenario's key bytes written so far
    nops,   \* the number of calls made after the scenario's keys
    mutex,  \* the owner of TetrisDeviceInner.game's Mutex, 0 when unlocked
    pc,     \* each caller's place in the entry point it runs
    call,   \* each caller's entry point and argument
    res,    \* what each caller's last call returned
    drawn,  \* history: the kinds next_piece_from_bag returned from the bag in use
    out     \* what the last render_to_buffer left: buffer, panic, ret

vars == <<game, prev, last, scen, pos, nops, mutex, pc, call, res, drawn, out>>

Threads == {1, 2}

NoReq == [fn |-> "none", arg |-> 0]

NoFrame == [buffer |-> <<>>, panic |-> FALSE, ret |-> 0]

NoCall == [call |-> "none", arg |-> "none", op |-> "none", ret |-> FALSE, calls |-> 0,
           result |-> "Ok"]

Init ==
    /\ scen \in 1..Len(Scenarios)
    /\ game = create_tetris_inner(Scenarios[scen].seed)
    /\ prev = game
    /\ last = NoCall
    /\ pos = 0
    /\ nops = 0
    /\ mutex = 0
    /\ pc = [t \in Threads |-> "idle"]
    /\ call = [t \in Threads |-> NoReq]
    /\ res = [t \in Threads |-> "none"]
    /\ drawn = <<>>
    /\ out = NoFrame

\* the caller is free once the scenario's keys are written
Free == pos = Len(Scenarios[scen].keys) /\ nops < MaxOps

\* write_iter with the scenario's next key byte
Replay ==
    /\ pos < Len(Scenarios[scen].keys)
    /\ LET op == KeyOp(Scenarios[scen].keys[pos + 1])
           r == ApplyOp(op, game)
       IN  /\ game' = r.game
           /\ last' = [call |-> "write_iter", arg |-> Scenarios[scen].keys[pos + 1],
                       op |-> op, ret |-> r.ret, calls |-> r.calls, result |-> "Ok"]
    /\ prev' = game
    /\ pos' = pos + 1
    /\ UNCHANGED <<out, drawn, scen, nops, mutex, pc, call, res>>

\* write_iter: copy_from_iter of len bytes (0 or 1); with a byte, the match
\* under the lock; Ok(len)
WriteIter(len, byte) ==
    /\ Free
    /\ LET op == IF len > 0 THEN KeyOp(byte) ELSE "none"
           r == ApplyOp(op, game)
       IN  /\ game' = r.game
           /\ last' = [call |-> "write_iter", arg |-> byte, op |-> op, ret |-> r.ret,
                       calls |-> r.calls, result |-> "Ok"]
    /\ prev' = game
    /\ nops' = nops + 1
    /\ UNCHANGED <<out, drawn, scen, pos, mutex, pc, call, res>>

\* ioctl: the match under the lock; Ok(0), or Err(EINVAL) for another code
Ioctl(cmd) ==
    /\ Free
    /\ LET op == IoctlOp(cmd)
           r == ApplyOp(IF op = "EINVAL" THEN "none" ELSE op, game)
       IN  /\ game' = r.game
           /\ last' = [call |-> "ioctl", arg |-> cmd,
                       op |-> IF op = "EINVAL" THEN "none" ELSE op,
                       ret |-> r.ret, calls |-> r.calls,
                       result |-> IF op = "EINVAL" THEN "EINVAL" ELSE "Ok"]
    /\ prev' = game
    /\ nops' = nops + 1
    /\ UNCHANGED <<out, drawn, scen, pos, mutex, pc, call, res>>

\* read_iter: the frame is rendered from the locked game, which it leaves as
\* it is; the allocation of the render buffer may fail
ReadIter(alloc_ok) ==
    /\ Free
    /\ game' = game
    /\ last' = [NoCall EXCEPT !.call = "read_iter",
                              !.result = IF alloc_ok THEN "Ok" ELSE "ENOMEM"]
    /\ prev' = game
    /\ nops' = nops + 1
    /\ UNCHANGED <<out, drawn, scen, pos, mutex, pc, call, res>>

\* TetrisDebugState::write: the dump reads the locked game
DebugWrite ==
    /\ Free
    /\ game' = game
    /\ last' = [NoCall EXCEPT !.call = "debug_write"]
    /\ prev' = game
    /\ nops' = nops + 1
    /\ UNCHANGED <<out, drawn, scen, pos, mutex, pc, call, res>>

Next ==
    \/ Replay
    \/ \E byte \in WriteBytes : WriteIter(1, byte)
    \/ WriteIter(0, "NUL")
    \/ \E cmd \in IoctlCmds : Ioctl(cmd)
    \/ \E alloc_ok \in BOOLEAN : ReadIter(alloc_ok)
    \/ DebugWrite

Spec == Init /\ [][Next]_vars

(***************************************************************************)
(* The same entry points run by concurrent callers, one step at a time.    *)
(* Mutex::lock() blocks until the mutex is free; the guard it returns      *)
(* unlocks when it is dropped: by drop(game), or where the function        *)
(* returns (also by `?` and by `return Err(..)`).                          *)
(***************************************************************************)
\* the number of calls the concurrent callers start
MaxCalls == 2

ConcBytes == {" ", "r", "x"}

ConcCmds == {TETRIS_IOCTL_DOWN, 0}

InitConc == Init /\ scen = 1

\* the arm of the match a write_iter or ioctl call takes
CallOp(c) == IF c.fn = "write_iter" THEN KeyOp(c.arg) ELSE IoctlOp(c.arg)

\* mutant: the match is entered without lock()
WriteAfterCopy_NoLock(len) == IF len > 0 THEN "match" ELSE "idle"

\* write_iter up to its lock(): copy_from_iter of len bytes into buffer;
\* without a byte it returns Ok(0) and never locks
WriteAfterCopy(len) == IF len > 0 THEN "lock" ELSE "idle"

CallWrite(t, len, byte) ==
    /\ pc[t] = "idle" /\ nops < MaxCalls
    /\ pc' = [pc EXCEPT ![t] = WriteAfterCopy(len)]
    /\ call' = [call EXCEPT ![t] = [fn |-> "write_iter", arg |-> byte]]
    /\ res' = [res EXCEPT ![t] = IF len > 0 THEN "none" ELSE "Ok"]
    /\ nops' = nops + 1
    /\ UNCHANGED <<out, drawn, game, prev, last, scen, pos, mutex>>

\* ioctl, read_iter and TetrisDebugState::write start with lock()
CallLocked(t, fn, arg) ==
    /\ pc[t] = "idle" /\ nops < MaxCalls
    /\ pc' = [pc EXCEPT ![t] = "lock"]
    /\ call' = [call EXCEPT ![t] = [fn |-> fn, arg |-> arg]]
    /\ res' = [res EXCEPT ![t] = "none"]
    /\ nops' = nops + 1
    /\ UNCHANGED <<out, drawn, game, prev, last, scen, pos, mutex>>

\* where each entry point continues with the guard in hand
AfterLock(fn) ==
    CASE fn \in {"write_iter", "ioctl"} -> "match"
      [] fn = "read_iter" -> "alloc"
      [] OTHER -> "dump"

\* device.inner.game.lock()
Acquire(t) ==
    /\ pc[t] = "lock"
    /\ mutex = 0
    /\ mutex' = t
    /\ prev' = game
    /\ pc' = [pc EXCEPT ![t] = AfterLock(call[t].fn)]
    /\ UNCHANGED <<out, drawn, game, last, scen, pos, nops, call, res>>

\* the match of write_iter and ioctl: an arm's method call, the first
\* move_down of hard_drop left to HardDropStep, or ioctl's return Err(EINVAL)
Match(t) ==
    /\ pc[t] = "match"
    /\ LET op == CallOp(call[t])
       IN  /\ game' = IF op \in {"hard_drop", "EINVAL"} THEN game ELSE ApplyOp(op, game).game
           /\ pc' = [pc EXCEPT ![t] = IF op = "hard_drop" THEN "hard_drop" ELSE "ret"]
           /\ res' = [res EXCEPT ![t] = IF op = "EINVAL" THEN "EINVAL" ELSE "Ok"]
    /\ UNCHANGED <<out, drawn, prev, last, scen, pos, nops, mutex, call>>

\* one turn of while self.move_down() {}
HardDropStep(t) ==
    /\ pc[t] = "hard_drop"
    /\ LET r == move_down(game)
       IN  /\ game' = r.game
           /\ pc' = [pc EXCEPT ![t] = IF r.ret THEN "hard_drop" ELSE "ret"]
    /\ UNCHANGED <<out, drawn, prev, last, scen, pos, nops, mutex, call, res>>

\* mutant: an error return leaves the mutex locked
Return_KeepOnError(t) ==
    /\ pc[t] = "ret"
    /\ mutex' = IF res[t] = "Ok" THEN 0 ELSE mutex
    /\ pc' = [pc EXCEPT ![t] = "idle"]
    /\ UNCHANGED <<out, drawn, game, prev, last, scen, pos, nops, call, res>>

\* the function returns and the guard goes out of scope
Return(t) ==
    /\ pc[t] = "ret"
    /\ mutex' = 0
    /\ pc' = [pc EXCEPT ![t] = "idle"]
    /\ UNCHANGED <<out, drawn, game, prev, last, scen, pos, nops, call, res>>

\* read_iter: buffer.resize(RENDER_BUFFER_SIZE, 0, GFP_KERNEL)?
ReadAlloc(t, alloc_ok) ==
    /\ pc[t] = "alloc"
    /\ pc' = [pc EXCEPT ![t] = IF alloc_ok THEN "render" ELSE "ret"]
    /\ res' = [res EXCEPT ![t] = IF alloc_ok THEN "none" ELSE "ENOMEM"]
    /\ UNCHANGED <<out, drawn, game, prev, last, scen, pos, nops, mutex, call>>

\* mutant: the guard is dropped once the frame is rendered
ReadRender_EarlyDrop(t) ==
    /\ pc[t] = "render"
    /\ mutex' = 0
    /\ pc' = [pc EXCEPT ![t] = "copy"]
    /\ UNCHANGED <<out, drawn, game, prev, last, scen, pos, nops, call, res>>

\* read_iter: game.render_to_buffer(&mut buffer)
ReadRender(t) ==
    /\ pc[t] = "render"
    /\ pc' = [pc EXCEPT ![t] = "copy"]
    /\ UNCHANGED <<out, drawn, game, prev, last, scen, pos, nops, mutex, call, res>>

\* read_iter: iov.copy_to_iter(&buffer[..bytes_to_copy])
ReadCopy(t) ==
    /\ pc[t] = "copy"
    /\ pc' = [pc EXCEPT ![t] = "drop"]
    /\ UNCHANGED <<out, drawn, game, prev, last, scen, pos, nops, mutex, call, res>>

\* read_iter: drop(game); Ok(copied)
ReadDrop(t) ==
    /\ pc[t] = "drop"
    /\ mutex' = 0
    /\ pc' = [pc EXCEPT ![t] = "idle"]
    /\ res' = [res EXCEPT ![t] = "Ok"]
    /\ UNCHANGED <<out, drawn, game, prev, last, scen, pos, nops, call>>

\* TetrisDebugState::write: the writeln!s of the locked game, any of which
\* may return the formatter's error through `?`
DebugDump(t, fmt_ok) ==
    /\ pc[t] = "dump"
    /\ pc' = [pc EXCEPT ![t] = "ret"]
    /\ res' = [res EXCEPT ![t] = IF fmt_ok THEN "Ok" ELSE "fmt::Error"]
    /\ UNCHANGED <<out, drawn, game, prev, last, scen, pos, nops, mutex, call>>

\* a step inside an entry point that waits for nothing
Proceed(t) ==
    \/ Match(t)
    \/ HardDropStep(t)
    \/ Return(t)
    \/ \E alloc_ok \in BOOLEAN : ReadAlloc(t, alloc_ok)
    \/ ReadRender(t)
    \/ ReadCopy(t)
    \/ ReadDrop(t)
    \/ \E fmt_ok \in BOOLEAN : DebugDump(t, fmt_ok)

NextConc ==
    \E t \in Threads :
        \/ \E byte \in ConcBytes : CallWrite(t, 1, byte)
        \/ CallWrite(t, 0, "NUL")
        \/ \E cmd \in ConcCmds : CallLocked(t, "ioctl", cmd)
        \/ CallLocked(t, "read_iter", 0)
        \/ CallLocked(t, "debug_write", 0)
        \/ Acquire(t)
        \/ Proceed(t)

SpecConc == InitConc /\ [][NextConc]_vars

\* the kernel mutex hands the lock to its waiters in turn, and a caller that
\* is running keeps running
FairSpec ==
    /\ SpecConc
    /\ \A t \in Threads : WF_vars(Proceed(t)) /\ SF_vars(Acquire(t))

(***************************************************************************)
(* clear_lines on its own: boards whose top row and bottom MaxRows rows    *)
(* are drawn from RowPatterns, as lock_piece leaves them before it calls   *)
(* clear_lines.                                                            *)
(***************************************************************************)
\* the number of rows above the floor that are drawn
MaxRows == 4

RowPatterns ==
    { EmptyRow,
      [x \in 0..(BOARD_WIDTH - 1) |-> TRUE],
      [x \in 0..(BOARD_WIDTH - 1) |-> x # BOARD_WIDTH - 1],
      [x \in 0..(BOARD_WIDTH - 1) |-> x < 4],
      [x \in 0..(BOARD_WIDTH - 1) |-> x % 2 = 0] }

DrawnRows == {0} \cup ((BOARD_HEIGHT - MaxRows)..(BOARD_HEIGHT - 1))

ClearBoards ==
    { [y \in 0..(BOARD_HEIGHT - 1) |-> IF y \in DrawnRows THEN f[y] ELSE EmptyRow] :
        f \in [DrawnRows -> RowPatterns] }

InitClear ==
    /\ \E b \in ClearBoards : game = [TetrisGame_new(U64Of(0)) EXCEPT !.board = b]
    /\ prev = game
    /\ last = NoCall
    /\ scen = 1
    /\ pos = 0
    /\ nops = 0
    /\ mutex = 0
    /\ pc = [t \in Threads |-> "idle"]
    /\ call = [t \in Threads |-> NoReq]
    /\ res = [t \in Threads |-> "none"]
    /\ drawn = <<>>
    /\ out = NoFrame

\* self.clear_lines()
ClearLines ==
    /\ nops = 0
    /\ game' = clear_lines(game)
    /\ prev' = game
    /\ last' = [NoCall EXCEPT !.call = "clear_lines"]
    /\ nops' = 1
    /\ UNCHANGED <<out, drawn, scen, pos, mutex, pc, call, res>>

SpecClear == InitClear /\ [][ClearLines]_vars

(***************************************************************************)
(* The randomizer on its own: a game as TetrisGame::new builds it, for the *)
(* seeds of BagSeeds, and next_piece_from_bag called MaxDraws times.       *)
(***************************************************************************)
\* the seeds are 0..MaxSeed and u64::MAX
MaxSeed == 15

\* the number of draws a behaviour makes
MaxDraws == 21

BagSeeds == {U64Of(n) : n \in 0..MaxSeed} \cup {U64Max}

InitBag ==
    /\ \E seed \in BagSeeds : game = TetrisGame_literal(seed)
    /\ prev = game
    /\ last = NoCall
    /\ scen = 1
    /\ pos = 0
    /\ nops = 0
    /\ mutex = 0
    /\ pc = [t \in Threads |-> "idle"]
    /\ call = [t \in Threads |-> NoReq]
    /\ res = [t \in Threads |-> "none"]
    /\ drawn = <<>>
    /\ out = NoFrame

\* self.next_piece_from_bag()
Draw ==
    /\ nops < MaxDraws
    /\ LET r == next_piece_from_bag(game)
       IN  /\ game' = r.game
           /\ drawn' = IF game.bag_idx >= 7 THEN <<r.ret>> ELSE Append(drawn, r.ret)
           /\ last' = [NoCall EXCEPT !.call = "next_piece_from_bag", !.op = r.ret]
    /\ prev' = game
    /\ nops' = nops + 1
    /\ UNCHANGED <<out, scen, pos, mutex, pc, call, res>>

SpecBag == InitBag /\ [][Draw]_vars

(***************************************************************************)
(* The renderer on its own: the games a scenario's keys lead through,      *)
(* rendered into buffers of the capacities of RenderCaps.                  *)
(***************************************************************************)
\* capacities 0..MaxCap, the same beyond the rows of an empty board's frame,
\* and read_iter's RENDER_BUFFER_SIZE
MaxCap == 12

RenderCaps == (0..MaxCap) \cup {690 + k : k \in 0..MaxCap} \cup {RENDER_BUFFER_SIZE}

\* write_iter with the scenario's next key byte, as long as no frame has been
\* rendered
ReplayKey ==
    /\ out = NoFrame
    /\ Replay

\* game.render_to_buffer(&mut buffer), buffer of n bytes
Render(n) ==
    /\ out = NoFrame
    /\ out' = render_to_buffer(game, n)
    /\ last' = [NoCall EXCEPT !.call = "render_to_buffer", !.arg = n]
    /\ prev' = game
    /\ UNCHANGED <<game, scen, pos, nops, mutex, pc, call, res, drawn>>

NextRender ==
    \/ ReplayKey
    \/ \E n \in RenderCaps : Render(n)

SpecRender == Init /\ [][NextRender]_vars

(***************************************************************************)
(* Claims about the lock.                                                  *)
(***************************************************************************)
\* the places between a caller's lock() and the drop of its guard
InSection(t) == pc[t] \in {"match", "hard_drop", "ret", "alloc", "render", "copy", "drop", "dump"}

\* the game a call leaves when it runs alone on the game it found at lock()
SerialResult(c, g) ==
    IF c.fn \in {"write_iter", "ioctl"} /\ CallOp(c) # "EINVAL"
    THEN ApplyOp(CallOp(c), g).game
    ELSE g

\* C1: no two callers are between lock() and the drop of the guard at the
\* same time, the caller that is there owns the mutex, and when it leaves,
\* the game is what its operation alone makes of the game it found when it
\* locked: the calls take effect one after another, in the order of their
\* lock().
C1_Serialized ==
    /\ \A t1, t2 \in Threads : InSection(t1) /\ InSection(t2) => t1 = t2
    /\ \A t \in Threads : InSection(t) => mutex = t
    /\ \A t \in Threads : pc[t] \in {"ret", "drop"} => game = SerialResult(call[t], prev)
    /\ \A t \in Threads : pc[t] \in {"alloc", "render", "copy", "dump"} => game = prev

\* a hard drop has locked its piece under the lock while the other caller
\* waits at lock()
C1_Witness ==
    \E t1, t2 \in Threads :
        /\ pc[t1] = "ret" /\ call[t1].fn = "write_iter" /\ call[t1].arg = " "
        /\ game # prev
        /\ pc[t2] = "lock"

\* C2 as stated: while read_iter allocates its buffer or copies the frame to
\* the caller, the reader does not hold the lock.
C2_ReleasedBeforeCopy ==
    \A t \in Threads : pc[t] \in {"alloc", "copy"} => mutex # t

\* C2, amended: read_iter takes the lock first and holds it while it
\* allocates the buffer, renders and copies the frame to the caller; the
\* guard is dropped only after the copy, or on the return of a failed
\* allocation.
C2_HeldUntilCopied ==
    \A t \in Threads :
        /\ pc[t] \in {"alloc", "render", "copy", "drop"} => mutex = t
        /\ call[t].fn = "read_iter" /\ pc[t] = "ret" => mutex = t /\ res[t] = "ENOMEM"

\* a reader is about to copy the frame out and holds the lock, while the
\* other caller waits for it
C2_Witness ==
    \E t1, t2 \in Threads : pc[t1] = "copy" /\ mutex = t1 /\ pc[t2] = "lock"

\* C3: a caller that is not inside an entry point never owns the mutex,
\* whichever way it returned, and under fair scheduling every caller that
\* waits at lock() gets the lock and returns.
C3_ReleasedAndLive ==
    /\ [](\A t \in Threads : pc[t] = "idle" => mutex # t)
    /\ \A t \in Threads : (pc[t] = "lock") ~> (pc[t] = "idle")

\* a caller has returned Err(EINVAL) from ioctl, the other has returned from
\* a failed allocation in read_iter, and the mutex is free
C3_Witness ==
    \E t1, t2 \in Threads :
        /\ pc[t1] = "idle" /\ call[t1].fn = "ioctl" /\ res[t1] = "EINVAL"
        /\ pc[t2] = "idle" /\ call[t2].fn = "read_iter" /\ res[t2] = "ENOMEM"
        /\ mutex = 0

\* a score 96 short of 2^32: 42949672 rows' worth of single clears
LateScore == <<65440, 65535>>

\* the scenarios played late in a game: the score has grown over the rows
\* cleared before; no method reads the score, so the play is the same
InitLate ==
    /\ scen \in 1..Len(Scenarios)
    /\ game = [create_tetris_inner(Scenarios[scen].seed) EXCEPT !.score = LateScore]
    /\ prev = game
    /\ last = NoCall
    /\ pos = 0
    /\ nops = 0
    /\ mutex = 0
    /\ pc = [t \in Threads |-> "idle"]
    /\ call = [t \in Threads |-> NoReq]
    /\ res = [t \in Threads |-> "none"]
    /\ drawn = <<>>
    /\ out = NoFrame

SpecLate == InitLate /\ [][Next]_vars

\* the number of times rotate_once is applied to a stored matrix
MaxTurns == 4

\* a piece of any kind in any of the four rotation states, and its matrix
InitShapes ==
    /\ \E piece_type \in Kinds, r \in 0..3 :
           game = [TetrisGame_literal(U64Of(0)) EXCEPT
                       !.current_piece = {[Tetromino_new(piece_type) EXCEPT !.rotation = r]}]
    /\ drawn = get_shape(Unwrap(game.current_piece))
    /\ prev = game
    /\ last = NoCall
    /\ scen = 1
    /\ pos = 0
    /\ nops = 0
    /\ mutex = 0
    /\ pc = [t \in Threads |-> "idle"]
    /\ call = [t \in Threads |-> NoReq]
    /\ res = [t \in Threads |-> "none"]
    /\ out = NoFrame

\* ShapeMatrix::rotate_once on the matrix held
RotateOnce ==
    /\ nops < MaxTurns
    /\ drawn' = rotate_once(drawn)
    /\ nops' = nops + 1
    /\ UNCHANGED <<game, prev, last, scen, pos, mutex, pc, call, res, out>>

SpecShapes == InitShapes /\ [][RotateOnce]_vars

(***************************************************************************)
(* Claims about the game.  They are stated over the shape table and the    *)
(* board directly, in the terms below, and compared with what the methods  *)
(* left in game after the last call on prev.                               *)
(***************************************************************************)
\* the (row, column) cells a piece covers, read from the shape table
Footprint(p) ==
    {<<p.y + c[1], p.x + c[2]>> : c \in
        {c \in (0..3) \X (0..3) : SHAPES[ShapeIndex(p.piece_type)][p.rotation][c[1]][c[2]]}}

OnBoard(c) == c[1] \in 0..(BOARD_HEIGHT - 1) /\ c[2] \in 0..(BOARD_WIDTH - 1)

\* the piece covers a cell off the board or an occupied cell
Blocked(board, p) == \E c \in Footprint(p) : ~OnBoard(c) \/ board[c[1]][c[2]]

Stamped(board, p) ==
    [y \in 0..(BOARD_HEIGHT - 1) |->
        [x \in 0..(BOARD_WIDTH - 1) |-> board[y][x] \/ <<y, x>> \in Footprint(p)]]

FullRows(board) == {y \in 0..(BOARD_HEIGHT - 1) : \A x \in 0..(BOARD_WIDTH - 1) : board[y][x]}

\* the rows that are not full, top to bottom
KeptRows(board) ==
    SelectSeq([i \in 1..BOARD_HEIGHT |-> board[i - 1]],
              LAMBDA row : \E x \in 0..(BOARD_WIDTH - 1) : ~row[x])

\* the full rows removed, the others moved down in their order, empty rows
\* on top
Compacted(board) ==
    LET k == Cardinality(FullRows(board))
        kept == KeptRows(board)
    IN  [y \in 0..(BOARD_HEIGHT - 1) |-> IF y < k THEN EmptyRow ELSE kept[y - k + 1]]

Lowered(p, y) == [p EXCEPT !.y = y]

\* the piece at the lowest row it reaches going straight down
Landing(board, p) ==
    Lowered(p, CHOOSE y \in p.y..BOARD_HEIGHT :
                   /\ \A yy \in p.y..y : ~Blocked(board, Lowered(p, yy))
                   /\ Blocked(board, Lowered(p, y + 1)))

\* where the last call had to lock the piece of prev, if it had to
LockedAt ==
    IF prev.current_piece = {} THEN {}
    ELSE LET p == Unwrap(prev.current_piece)
         IN  CASE last.op = "move_down" /\ Blocked(prev.board, Lowered(p, p.y + 1)) -> {p}
               [] last.op = "hard_drop" -> {Landing(prev.board, p)}
               [] OTHER -> {}

\* the piece a spawn makes of the kind shown as next
SpawnOf(g) == [piece_type |-> g.next_piece_type, x |-> 3, y |-> 0, rotation |-> 0]

\* C4: a soft drop of a piece that can go one row down moves it there and
\* returns "moved", with board, score, game_over, next kind and randomizer
\* as they were; if it cannot, the call returns "locked", and the game is
\* what clear_lines and then spawn_piece make of the board with exactly the
\* cells of the piece at its place before the call stamped and no piece.
C4_SoftDrop ==
    last.op = "move_down" /\ prev.current_piece # {} =>
        LET p == Unwrap(prev.current_piece)
            q == Lowered(p, p.y + 1)
        IN  IF ~Blocked(prev.board, q)
            THEN last.ret /\ game = [prev EXCEPT !.current_piece = {q}]
            ELSE /\ ~last.ret
                 /\ game = spawn_piece(clear_lines(
                               [prev EXCEPT !.board = Stamped(prev.board, p),
                                            !.current_piece = {}]))

\* a soft drop has locked a piece that rested on the stack, a row was
\* cleared and the next piece spawned
C4_Witness ==
    /\ last.op = "move_down" /\ ~last.ret
    /\ prev.current_piece # {}
    /\ U32Less(prev.score, game.score)
    /\ game.current_piece # {}
    /\ game.board # prev.board

\* C5: a hard drop ends after at most BOARD_HEIGHT calls of move_down; with
\* a piece, it makes as many calls as the piece has rows to fall and one,
\* the board is the old one with that piece stamped at the lowest row of its
\* straight descent (x and rotation as they were) and compacted, and the
\* piece spawned by the lock is still at the spawn position; without a
\* piece, nothing changes.
C5_HardDrop ==
    last.op = "hard_drop" =>
        /\ last.calls \in 1..BOARD_HEIGHT
        /\ prev.current_piece = {} => game = prev
        /\ prev.current_piece # {} =>
             LET p == Unwrap(prev.current_piece)
                 l == Landing(prev.board, p)
             IN  /\ l.x = p.x /\ l.rotation = p.rotation /\ l.piece_type = p.piece_type
                 /\ last.calls = l.y - p.y + 1
                 /\ game.board = Compacted(Stamped(prev.board, l))
                 /\ game.current_piece \subseteq {SpawnOf(prev)}
                 /\ game.current_piece = {} => game.game_over

\* a hard drop has taken a piece down more than 15 rows and locked it, and
\* the piece spawned stays at the top
C5_Witness ==
    /\ last.op = "hard_drop"
    /\ prev.current_piece # {}
    /\ last.calls > 15
    /\ game.current_piece = {SpawnOf(prev)}
    /\ game.board # prev.board

\* C6: clear_lines, on a board with k <= 4 full rows, leaves k empty rows on
\* top and below them the rows that were not full, each as it was and in
\* the order they had.
C6_StablePartition ==
    last.call = "clear_lines" /\ Cardinality(FullRows(prev.board)) <= 4 =>
        LET k == Cardinality(FullRows(prev.board))
            kept == KeptRows(prev.board)
        IN  /\ Len(kept) = BOARD_HEIGHT - k
            /\ \A y \in 0..(k - 1) : game.board[y] = EmptyRow
            /\ \A i \in 1..Len(kept) : game.board[k + i - 1] = kept[i]

\* four full rows between rows that are not full, under a top row that is
\* not empty, have been cleared
C6_Witness ==
    /\ last.call = "clear_lines"
    /\ Cardinality(FullRows(prev.board)) = 4
    /\ prev.board[0] # EmptyRow
    /\ BOARD_HEIGHT - 1 \notin FullRows(prev.board)
    /\ game.board[BOARD_HEIGHT - 1] = prev.board[BOARD_HEIGHT - 1]
    /\ game.board[0] = EmptyRow

\* C7: a lock whose stamped board has n full rows adds 0, 100, 300, 500 or
\* 800 to the score for n = 0, 1, 2, 3, 4; and when the bottom row lacked a
\* single cell and the lock fills it, completing no other row, the score
\* grows by 100 and the board is the stamped one without its bottom row.
C7_Score ==
    \A l \in LockedAt :
        LET stamped == Stamped(prev.board, l)
            n == Cardinality(FullRows(stamped))
            bottom == BOARD_HEIGHT - 1
        IN  /\ U32Value(game.score) = U32Value(prev.score) + (CASE n = 0 -> 0 [] n = 1 -> 100 [] n = 2 -> 300
                                            [] n = 3 -> 500 [] n = 4 -> 800)
            /\ /\ Cardinality({x \in 0..(BOARD_WIDTH - 1) : ~prev.board[bottom][x]}) = 1
               /\ FullRows(stamped) = {bottom}
               => /\ U32Value(game.score) = U32Value(prev.score) + 100
                  /\ game.board = [y \in 0..bottom |->
                                      IF y = 0 THEN EmptyRow ELSE stamped[y - 1]]

\* a piece has been locked into the one free cell of the bottom row, with
\* 100 points for it
C7_Witness ==
    /\ LockedAt # {}
    /\ Cardinality({x \in 0..(BOARD_WIDTH - 1) : ~prev.board[BOARD_HEIGHT - 1][x]}) = 1
    /\ U32Value(game.score) = U32Value(prev.score) + 100
    /\ game.board # prev.board

TopTwoFull == [y \in 0..(BOARD_HEIGHT - 1) |-> [x \in 0..(BOARD_WIDTH - 1) |-> y < 2]]

\* C8: when the spawn that follows a lock finds the piece of the next kind
\* at x = 3, y = 0, rotation 0 blocked on the compacted board, the game is
\* over, there is no active piece, and next kind, bag, cursor and PRNG are
\* as before the call; and spawn_piece on a board with its top two rows
\* full sets game_over and installs no piece, whatever the next kind.
C8_SpawnCollision ==
    /\ \A l \in LockedAt :
           Blocked(Compacted(Stamped(prev.board, l)), SpawnOf(prev)) =>
               /\ game.game_over
               /\ game.current_piece = {}
               /\ game.next_piece_type = prev.next_piece_type
               /\ game.bag = prev.bag /\ game.bag_idx = prev.bag_idx
               /\ game.prng = prev.prng
    /\ LET g == [game EXCEPT !.board = TopTwoFull, !.current_piece = {},
                             !.game_over = FALSE]
       IN  spawn_piece(g) = [g EXCEPT !.game_over = TRUE]

\* a lock has filled the spawn area: the game is over with no piece
C8_Witness ==
    /\ LockedAt # {}
    /\ ~prev.game_over
    /\ game.game_over
    /\ game.current_piece = {}
    /\ Blocked(game.board, SpawnOf(prev))

\* the last call made a spawn that succeeded: after a lock, or in reset
Spawned == (LockedAt # {} \/ last.op = "reset") /\ game.current_piece # {}

\* C9: a next kind is always defined; a piece that was spawned has the kind
\* that was next before the call, and the spawn took exactly one kind from
\* the bag (reshuffled first if it was used up) as the new next kind; the
\* device starts with the first kind of the first bag as its piece and the
\* second as next.
C9_Lookahead ==
    /\ game.next_piece_type \in Kinds
    /\ Spawned =>
           /\ Unwrap(game.current_piece).piece_type = prev.next_piece_type
           /\ game.bag_idx = IF prev.bag_idx >= 7 THEN 1 ELSE prev.bag_idx + 1
           /\ game.next_piece_type = game.bag[game.bag_idx - 1]
           /\ prev.bag_idx < 7 => game.bag = prev.bag /\ game.prng = prev.prng
    /\ pos = 0 /\ nops = 0 =>
           /\ game.bag_idx = 2
           /\ game.current_piece = {Tetromino_new(game.bag[0])}
           /\ game.next_piece_type = game.bag[1]

\* a lock at the end of a bag has spawned the kind shown as next and drawn
\* the new next kind from a reshuffled bag
C9_Witness ==
    /\ Spawned /\ LockedAt # {}
    /\ prev.bag_idx = 7
    /\ game.bag_idx = 1
    /\ game.bag # prev.bag

\* C10: the bag always holds each of the 7 kinds once, the cursor is never
\* above 7, the kinds drawn from one bag are distinct, and the 7 draws that
\* start at a bag boundary are the 7 kinds.
C10_BagPermutation ==
    /\ {game.bag[k] : k \in 0..6} = Kinds
    /\ game.bag_idx \in 0..7
    /\ \A i, j \in 1..Len(drawn) : i # j => drawn[i] # drawn[j]
    /\ last.call = "next_piece_from_bag" =>
           /\ Len(drawn) = game.bag_idx
           /\ drawn[Len(drawn)] = last.op
    /\ Len(drawn) = 7 => {drawn[k] : k \in 1..7} = Kinds

\* the second reshuffled bag has been drawn to its end
C10_Witness ==
    /\ Len(drawn) = 7
    /\ nops = 14
    /\ game.bag # [k \in 0..6 |-> TetrominoType[k + 1]]
    /\ game.bag_idx = 7

(***************************************************************************)
(* Claims about reset.                                                     *)
(***************************************************************************)
\* the fresh state: board empty, score 0, not over, a piece at spawn
Fresh(g) ==
    /\ g.board = EmptyBoard
    /\ g.score = U32Of(0)
    /\ ~g.game_over
    /\ \E p \in g.current_piece : p.x = 3 /\ p.y = 0 /\ p.rotation = 0

\* what the fresh state fixes of a game: all but the kinds and the randomizer
FreshView(g) ==
    [board |-> g.board, score |-> g.score, game_over |-> g.game_over,
     place |-> {<<p.x, p.y, p.rotation>> : p \in g.current_piece}]

\* C11: a reset leaves the fresh state, with the piece of the kind that was
\* next, whatever the game was (over or not); and from every reachable game
\* a second reset leaves the fresh state again, equal to the first in board,
\* score, game_over and the place of the piece.
C11_ResetFresh ==
    /\ last.op = "reset" => Fresh(game) /\ game.current_piece = {SpawnOf(prev)}
    /\ LET once == reset(game)
           twice == reset(once)
       IN  Fresh(once) /\ Fresh(twice) /\ FreshView(twice) = FreshView(once)

\* a game that was over, with rows on the board, has been reset
C11_Witness ==
    /\ last.op = "reset"
    /\ prev.game_over
    /\ prev.board # EmptyBoard
    /\ Fresh(game)

\* C12: after a reset, PRNG, bag and cursor are those before it advanced by
\* the one draw of its spawn: untouched but for the cursor when the bag was
\* not used up, and the new next kind is the kind drawn.
C12_ResetKeepsStream ==
    last.op = "reset" =>
        LET d == next_piece_from_bag(prev)
        IN  /\ game.prng = d.game.prng
            /\ game.bag = d.game.bag
            /\ game.bag_idx = d.game.bag_idx
            /\ game.next_piece_type = d.ret
            /\ prev.bag_idx < 7 =>
                   /\ game.prng = prev.prng
                   /\ game.bag = prev.bag
                   /\ game.bag_idx = prev.bag_idx + 1
                   /\ game.next_piece_type = prev.bag[prev.bag_idx]

\* a reset at the end of a bag has reshuffled it with the running PRNG
C12_Witness ==
    /\ last.op = "reset"
    /\ prev.bag_idx = 7
    /\ game.bag_idx = 1
    /\ game.prng # prev.prng
    /\ prev.score = U32Of(0) /\ prev.board # EmptyBoard

(***************************************************************************)
(* Claims about moves, rotation and the dispatch of keys and commands.     *)
(***************************************************************************)
\* the piece move_left, move_right and rotate try
Candidate(op, p) ==
    CASE op = "move_left" -> [p EXCEPT !.x = p.x - 1]
      [] op = "move_right" -> [p EXCEPT !.x = p.x + 1]
      [] op = "rotate" -> [p EXCEPT !.rotation = (p.rotation + 1) % 4]

\* C13: move_left, move_right and rotate, with a piece, try the piece one
\* column to the left, one to the right, or in the next rotation at the
\* same x and y; if it is not blocked the call returns true and the game
\* differs only in that the piece is the candidate; if it is blocked the
\* call returns false and nothing at all has changed.
C13_MoveRotate ==
    last.op \in {"move_left", "move_right", "rotate"} /\ prev.current_piece # {} =>
        LET cand == Candidate(last.op, Unwrap(prev.current_piece))
        IN  IF ~Blocked(prev.board, cand)
            THEN last.ret /\ game = [prev EXCEPT !.current_piece = {cand}]
            ELSE ~last.ret /\ game = prev

\* a rotation that would leave the board has been rejected, the piece is
\* where it was
C13_Witness ==
    /\ last.op = "rotate" /\ ~last.ret
    /\ prev.current_piece # {}
    /\ \E c \in Footprint(Candidate("rotate", Unwrap(prev.current_piece))) : ~OnBoard(c)
    /\ game = prev

\* C14: without a piece, or with the game over, the five piece operations
\* return without error and change nothing; and a game that is over stays
\* over under every call that is not a reset.
C14_NoPieceNoOp ==
    /\ /\ prev.current_piece = {} \/ prev.game_over
       /\ last.op \in {"move_left", "move_right", "rotate", "move_down", "hard_drop"}
       => game = prev /\ ~last.ret /\ last.result = "Ok"
    /\ prev.game_over /\ last.op # "reset" => game.game_over /\ game = prev

\* a hard drop on a game that is over has changed nothing
C14_Witness ==
    /\ prev.game_over /\ prev.current_piece = {}
    /\ last.call = "write_iter" /\ last.op = "hard_drop"
    /\ last.result = "Ok"
    /\ game = prev

\* C15: ioctl returns EINVAL exactly for the codes other than 0x8000 ..
\* 0x8005, and then the game is unchanged; write_iter always returns Ok,
\* and a byte other than a/A, d/D, s/S, w/W, space, r/R (or no byte at
\* all) leaves the game unchanged.
C15_InvalidInput ==
    /\ last.call = "ioctl" =>
           /\ last.result = "EINVAL" <=> last.arg \notin 32768..32773
           /\ last.result \in {"Ok", "EINVAL"}
           /\ last.result = "EINVAL" => game = prev
    /\ last.call = "write_iter" =>
           /\ last.result = "Ok"
           /\ last.arg \notin {"a", "A", "d", "D", "s", "S", "w", "W", " ", "r", "R"}
                  => game = prev

\* the code after TETRIS_IOCTL_RESET has been refused on a game under way
C15_Witness ==
    /\ last.call = "ioctl" /\ last.arg = 32774
    /\ last.result = "EINVAL"
    /\ game = prev
    /\ game.current_piece # {} /\ game.board # EmptyBoard

(***************************************************************************)
(* Claims about the renderer.                                              *)
(***************************************************************************)
RECURSIVE Decimal(_)
\* the decimal digits of n as bytes
Decimal(n) == IF n < 10 THEN <<48 + n>> ELSE Append(Decimal(n \div 10), 48 + (n % 10))

RECURSIVE Concat(_)
Concat(seqs) == IF seqs = <<>> THEN <<>> ELSE Head(seqs) \o Concat(Tail(seqs))

\* the untruncated frame of a game: borders, the 20 rows of the board with
\* the piece drawn in, the score line and, when the game is over, its line
Frame(g) ==
    LET border == Concat([k \in 1..(2 * BOARD_WIDTH) |-> <<226, 149, 144>>])
        cells == IF g.current_piece = {} THEN {} ELSE Footprint(Unwrap(g.current_piece))
        Cell(y, x) == IF g.board[y][x] \/ <<y, x>> \in cells
                      THEN <<226, 150, 136, 226, 150, 136>> ELSE <<32, 32>>
        Row(y) == <<226, 149, 145>> \o Concat([k \in 1..BOARD_WIDTH |-> Cell(y, k - 1)])
                      \o <<226, 149, 145, 10>>
    IN  <<226, 149, 148>> \o border \o <<226, 149, 151, 10>>
            \o Concat([k \in 1..BOARD_HEIGHT |-> Row(k - 1)])
            \o <<226, 149, 154>> \o border \o <<226, 149, 157, 10>>
            \o <<83, 99, 111, 114, 101, 58, 32>> \o Decimal(U32Value(g.score)) \o <<10>>
            \o (IF g.game_over THEN <<71, 65, 77, 69, 32, 79, 86, 69, 82, 33, 10>> ELSE <<>>)

\* C16: render_to_buffer on a buffer of n bytes never writes at an index of
\* n or more, returns min(n, L) for the length L of the untruncated frame,
\* leaves the first min(n, L) bytes of that frame in the buffer and spaces
\* after them; with n = 10 it returns 10; and L is at most
\* RENDER_BUFFER_SIZE.
C16_RenderBounded ==
    /\ Len(Frame(game)) <= RENDER_BUFFER_SIZE
    /\ last.call = "render_to_buffer" =>
           LET n == last.arg
               frame == Frame(game)
               written == IF n < Len(frame) THEN n ELSE Len(frame)
           IN  /\ ~out.panic
               /\ Len(out.buffer) = n
               /\ out.ret = written
               /\ \A i \in 1..written : out.buffer[i] = frame[i]
               /\ \A i \in (written + 1)..n : out.buffer[i] = 32
               /\ n = 10 => out.ret = 10

\* a frame with locked cells has been cut inside its score line
C16_Witness ==
    /\ last.call = "render_to_buffer"
    /\ out.ret = last.arg
    /\ last.arg > 600
    /\ out.ret < Len(Frame(game))
    /\ game.board # EmptyBoard

C18_RotationTable ==
    LET p == Unwrap(game.current_piece)
        k == ShapeIndex(p.piece_type)
        Stored(r) == SHAPES[k][r % 4]
    IN  /\ drawn = Stored(p.rotation + nops)
        /\ drawn = get_shape([p EXCEPT !.rotation = p.rotation + nops])
        /\ \A i, j \in 0..3 : Stored(p.rotation + nops + 1)[j][3 - i] = drawn[i][j]
        /\ nops % 4 = 0 => drawn = Stored(p.rotation)

\* the T matrix stored for rotation 3 has been turned four times, through
\* four different matrices
C18_Witness ==
    LET p == Unwrap(game.current_piece)
    IN  /\ p.piece_type = "T" /\ p.rotation = 3
        /\ nops = 4
        /\ Cardinality({SHAPES[ShapeIndex("T")][r] : r \in 0..3}) = 4
        /\ drawn = SHAPES[ShapeIndex("T")][3]

\* C19: in every state between two calls on the created game, there is no
\* active piece if and only if game_over is set.
C19_PieceIffNotOver == (game.current_piece = {}) <=> game.game_over

\* a hard drop on a running game has ended it: the piece is gone and
\* game_over is set; before the call there was a piece and the game ran
C19_Witness ==
    /\ last.op = "hard_drop"
    /\ prev.current_piece # {} /\ ~prev.game_over
    /\ game.current_piece = {} /\ game.game_over

\* C20: whenever a call locks a piece, the rows that lock completes are rows
\* the piece covers and are at most 4, clear_lines counts exactly them, and
\* the score grows by 800 only when they are exactly 4.
C20_AtMostFourRows ==
    \A l \in LockedAt :
        LET stamped == Stamped(prev.board, l)
            n == ClearScan(stamped, BOARD_HEIGHT - 1, BOARD_HEIGHT, 0).lines_cleared
        IN  /\ FullRows(stamped) \subseteq {c[1] : c \in Footprint(l)}
            /\ n = Cardinality(FullRows(stamped))
            /\ n <= 4
            /\ U32Value(game.score) = U32Value(prev.score) + 800 => n = 4

\* a lock has completed four rows at once and earned 800 points
C20_Witness ==
    \E l \in LockedAt :
        /\ Cardinality(FullRows(Stamped(prev.board, l))) = 4
        /\ U32Value(game.score) = U32Value(prev.score) + 800

\* the cells a lock of piece l set on the board that were clear before
AddedCells(board, l) ==
    {c \in (0..(BOARD_HEIGHT - 1)) \X (0..(BOARD_WIDTH - 1)) :
        Stamped(board, l)[c[1]][c[2]] /\ ~board[c[1]][c[2]]}

\* C21: whenever there is an active piece, it covers exactly 4 cells, each
\* on the board and clear, its rotation is in 0..3 and check_collision is
\* false of it; and whenever a call locks a piece, the cells lock_piece
\* writes are all the cells of the piece and the lock sets exactly 4 cells
\* that were clear.
C21_PieceFits ==
    /\ game.current_piece # {} =>
           LET p == Unwrap(game.current_piece)
           IN  /\ p.rotation \in 0..3
               /\ Cardinality(Footprint(p)) = 4
               /\ \A c \in Footprint(p) : OnBoard(c) /\ ~game.board[c[1]][c[2]]
               /\ ~check_collision(game, p)
    /\ \A l \in LockedAt :
           /\ StampCells(l) = Footprint(l)
           /\ Cardinality(AddedCells(prev.board, l)) = 4

\* a turned piece has been locked against the left wall on the floor, and
\* the next piece is active
C21_Witness ==
    /\ game.current_piece # {}
    /\ \E l \in LockedAt :
           /\ l.rotation # 0
           /\ \E c \in Footprint(l) : c[2] = 0
           /\ \E c \in Footprint(l) : c[1] = BOARD_HEIGHT - 1

\* C22: in every state between two calls the board has no row with all of
\* its cells occupied; when the last call locked a piece that completed
\* rows, the board after the call is the stamped board with those rows
\* removed, and the piece spawned by that lock met that board.
C22_NoFullRow ==
    /\ FullRows(game.board) = {}
    /\ \A l \in LockedAt :
           /\ game.board = Compacted(Stamped(prev.board, l))
           /\ game.current_piece # {} => ~Blocked(game.board, Unwrap(game.current_piece))

\* a lock has completed two or more rows; after the call none is left, cells
\* remain on the board and the next piece is active
C22_Witness ==
    /\ \E l \in LockedAt : Cardinality(FullRows(Stamped(prev.board, l))) >= 2
    /\ FullRows(game.board) = {}
    /\ game.board # EmptyBoard
    /\ game.current_piece # {}

====
